---- MODULE Spec2Model ----
(***************************************************************************)
(* State-machine model of voxel_2d (src/src/main.rs): the VoxelMap density *)
(* grid, the sculpting system handle_input, the marching-squares system    *)
(* draw_marching_squares with interpolate, and the Update schedule of main.*)
(*                                                                         *)
(* f32 densities are modelled in exact fixed point: One units make 1.0.    *)
(* World coordinates are integers (VOXEL_SIZE world units per grid step);  *)
(* an interpolated point is a record [x, y, den] standing for the point    *)
(* (x/den, y/den), den > 0.                                                *)
(***************************************************************************)
EXTENDS Integers, Sequences, FiniteSets

\* ------------------------------------------------------------ constants
\* Fixed-point unit: the f32 literal 1.0 (upper clamp bound, initial density).
One == 20000
\* const VOXEL_SIZE: f32 = 8.0
VOXEL_SIZE == 8
\* const ISO_LEVEL: f32 = 0.5
ISO_LEVEL == One \div 2
\* the degenerate-edge guard 0.0001 of interpolate
Epsilon == One \div 10000
\* let radius = 4
Radius == 4
\* the magnitude 0.1 of `amount` in handle_input
BrushStep == One \div 10

\* ------------------------------------------------------------ bounds
\* Largest number of calls made on a VoxelMap after its construction.
MaxSteps == 2
\* Largest number of frames of the Update schedule in a run.
MaxFrames == 2
\* Grid size the application constructs (GRID_WIDTH = 100 and GRID_HEIGHT = 80
\* in the source, scaled down here).
GRID_WIDTH == 3
GRID_HEIGHT == 2

\* Dimensions handed to VoxelMap::new.
Dims == {<<0, 0>>, <<0, 2>>, <<2, 0>>, <<1, 1>>, <<2, 2>>, <<3, 2>>}
\* Deltas handed to modify_density: -1.5, -0.25, +0.25.
Amounts == {-((3 * One) \div 2), -(One \div 4), One \div 4}
\* World positions the cursor resolves to.
CursorWorld == {<<0, 0>>, <<-24, -24>>, <<-36, 0>>, <<-80, 0>>}
\* Corner densities given to one cell of the extractor.
Densities == {0, 1, 2, ISO_LEVEL - 1, ISO_LEVEL, ISO_LEVEL + 1, One}
\* Edge endpoints given to interpolate.
Points == {<<0, 0>>, <<8, 0>>, <<-4, 12>>}

VARIABLES
    pc,        \* "start" before construction, "ready" with a VoxelMap, "panicked"
    map,       \* the VoxelMap resource: [data, width, height]
    calls,     \* number of calls made on the VoxelMap since its construction
    last,      \* the last call and its arguments
    ret,       \* value returned by the last get_density
    gizmos,    \* draw commands emitted by the last draw_marching_squares
    corners,   \* SpecCell: the four corner densities v0..v3 of one cell
    interp,    \* SpecCell: the last interpolate call and its result
    frame,     \* SpecFrame: number of completed frames
    running,   \* SpecFrame: systems of the Update schedule now running
    finished   \* SpecFrame: systems that have run in the current frame

vars == <<pc, map, calls, last, ret, gizmos, corners, interp, frame, running, finished>>

\* ------------------------------------------------------------ helpers
Abs(n) == IF n < 0 THEN -n ELSE n

\* f32::clamp(lo, hi)
Clamp(v, lo, hi) == IF v < lo THEN lo ELSE IF v > hi THEN hi ELSE v

\* Outcome of an out-of-bounds Vec index (a Rust panic).
PanicMap == [data |-> <<>>, width |-> -1, height |-> -1]
PanicValue == -1

NoCall == [op |-> "none", args |-> <<>>]

\* ------------------------------------------------------------ VoxelMap
\* VoxelMap::new
new(w, h) == [data |-> [i \in 1 .. w * h |-> One], width |-> w, height |-> h]

\* VoxelMap::world_to_grid; world_pos is a pair of integers
world_to_grid(m, world_pos) ==
    LET offset_x == (m.width * VOXEL_SIZE) \div 2
        offset_y == (m.height * VOXEL_SIZE) \div 2
    IN  <<(world_pos[1] + offset_x) \div VOXEL_SIZE,
          (world_pos[2] + offset_y) \div VOXEL_SIZE>>

\* get_density with the bounds test off by one (x > width, y > height).
get_density_off_by_one(m, x, y) ==
    IF x < 0 \/ x > m.width \/ y < 0 \/ y > m.height
    THEN 0
    ELSE IF y * m.width + x + 1 \in DOMAIN m.data
         THEN m.data[y * m.width + x + 1]
         ELSE PanicValue

\* VoxelMap::get_density
get_density(m, x, y) ==
    IF x < 0 \/ x >= m.width \/ y < 0 \/ y >= m.height
    THEN 0
    ELSE LET idx == y * m.width + x
         IN  IF idx + 1 \in DOMAIN m.data THEN m.data[idx + 1] ELSE PanicValue

\* modify_density that clamps from above only.
modify_density_no_floor(m, x, y, amount) ==
    IF x >= 0 /\ x < m.width /\ y >= 0 /\ y < m.height
    THEN [m EXCEPT !.data[y * m.width + x + 1] = IF @ + amount > One THEN One ELSE @ + amount]
    ELSE m

\* modify_density with the bounds test off by one (x <= width).
modify_density_off_by_one(m, x, y, amount) ==
    IF x >= 0 /\ x <= m.width /\ y >= 0 /\ y < m.height
    THEN IF y * m.width + x + 1 \in DOMAIN m.data
         THEN [m EXCEPT !.data[y * m.width + x + 1] = Clamp(@ + amount, 0, One)]
         ELSE PanicMap
    ELSE m

\* VoxelMap::modify_density
modify_density(m, x, y, amount) ==
    IF x >= 0 /\ x < m.width /\ y >= 0 /\ y < m.height
    THEN LET idx == y * m.width + x
         IN  IF idx + 1 \in DOMAIN m.data
             THEN [m EXCEPT !.data[idx + 1] = Clamp(@ + amount, 0, One)]
             ELSE PanicMap
    ELSE m

\* ------------------------------------------------------------ handle_input
\* What the windowing layer hands to handle_input in one call: whether the
\* window and camera queries yield a single entity, the two mouse buttons, and
\* the cursor's world position (<<>> when cursor_position is None or
\* viewport_to_world_2d fails).
ActingInputs ==
    {[window |-> TRUE, camera |-> TRUE, left |-> b[1], right |-> b[2], world |-> w] :
        b \in {<<TRUE, FALSE>>, <<FALSE, TRUE>>, <<TRUE, TRUE>>}, w \in CursorWorld}

IdleInputs ==
    {[window |-> FALSE, camera |-> TRUE, left |-> TRUE, right |-> FALSE, world |-> <<0, 0>>],
     [window |-> TRUE, camera |-> FALSE, left |-> FALSE, right |-> TRUE, world |-> <<0, 0>>],
     [window |-> TRUE, camera |-> TRUE, left |-> FALSE, right |-> FALSE, world |-> <<0, 0>>],
     [window |-> TRUE, camera |-> TRUE, left |-> TRUE, right |-> FALSE, world |-> <<>>]}

HandleInputs == ActingInputs \cup IdleInputs

\* A square brush: every offset of the two loops.
InBrushSquare(dx, dy) == dx * dx <= Radius * Radius /\ dy * dy <= Radius * Radius

\* `dist <= radius as f32` with dist = sqrt((dx*dx + dy*dy) as f32): the square
\* root is monotonic and exact at radius*radius, so the test is the comparison
\* of the squares.
InBrush(dx, dy) == dx * dx + dy * dy <= Radius * Radius

\* let amount = if is_digging { -0.1 } else { 0.1 }
BrushAmount(is_digging) == IF is_digging THEN -BrushStep ELSE BrushStep

\* The (dx, dy) pairs of `for dy in -radius..=radius { for dx in -radius..=radius`,
\* numbered from 0 in loop order.
BrushSide == 2 * Radius + 1
BrushOffsets ==
    [k \in 0 .. BrushSide * BrushSide - 1 |->
        <<(k % BrushSide) - Radius, (k \div BrushSide) - Radius>>]

\* The two loops from iteration k on; a panic inside modify_density ends them.
RECURSIVE BrushLoop(_, _, _, _, _)
BrushLoop(m, gx, gy, is_digging, k) ==
    IF k >= BrushSide * BrushSide \/ m.width < 0
    THEN m
    ELSE IF InBrush(BrushOffsets[k][1], BrushOffsets[k][2])
         THEN BrushLoop(modify_density(m, gx + BrushOffsets[k][1], gy + BrushOffsets[k][2],
                                       BrushAmount(is_digging)),
                        gx, gy, is_digging, k + 1)
         ELSE BrushLoop(m, gx, gy, is_digging, k + 1)

\* handle_input: the map after the system ran on input `in`
handle_input(m, in) ==
    IF ~in.window \/ ~in.camera
    THEN m
    ELSE IF (in.left \/ in.right) /\ in.world # <<>>
         THEN LET g == world_to_grid(m, in.world)
              IN  BrushLoop(m, g[1], g[2], in.left, 0)
         ELSE m

\* ------------------------------------------------------------ interpolate
Pt(p) == [x |-> p[1], y |-> p[2], den |-> 1]

\* interpolate with the degenerate-edge guard written <= 0.0001.
interpolate_wide_guard(p1, p2, v1, v2) ==
    IF Abs(v2 - v1) <= Epsilon
    THEN Pt(p1)
    ELSE [x |-> (IF v2 < v1 THEN -1 ELSE 1) * (p1[1] * (v2 - v1) + (p2[1] - p1[1]) * (ISO_LEVEL - v1)),
          y |-> (IF v2 < v1 THEN -1 ELSE 1) * (p1[2] * (v2 - v1) + (p2[2] - p1[2]) * (ISO_LEVEL - v1)),
          den |-> Abs(v2 - v1)]

\* interpolate with t measured from the wrong end: t = (ISO_LEVEL - v2) / (v2 - v1).
interpolate_wrong_end(p1, p2, v1, v2) ==
    IF Abs(v2 - v1) < Epsilon
    THEN Pt(p1)
    ELSE [x |-> (IF v2 < v1 THEN -1 ELSE 1) * (p1[1] * (v2 - v1) + (p2[1] - p1[1]) * (ISO_LEVEL - v2)),
          y |-> (IF v2 < v1 THEN -1 ELSE 1) * (p1[2] * (v2 - v1) + (p2[2] - p1[2]) * (ISO_LEVEL - v2)),
          den |-> Abs(v2 - v1)]

\* interpolate(p1, p2, v1, v2); p1, p2 are integer points <<x, y>>
interpolate(p1, p2, v1, v2) ==
    IF Abs(v2 - v1) < Epsilon
    THEN Pt(p1)
    ELSE LET n == ISO_LEVEL - v1          \* t = n / d
             d == v2 - v1
             s == IF d < 0 THEN -1 ELSE 1
         IN  [x |-> s * (p1[1] * d + (p2[1] - p1[1]) * n),
              y |-> s * (p1[2] * d + (p2[2] - p1[2]) * n),
              den |-> s * d]

\* ------------------------------------------------------------ draw_marching_squares
\* The case index of a cell, lines 138-150.
case_index(v0, v1, v2, v3) ==
    (IF v0 >= ISO_LEVEL THEN 1 ELSE 0) + (IF v1 >= ISO_LEVEL THEN 2 ELSE 0)
  + (IF v2 >= ISO_LEVEL THEN 4 ELSE 0) + (IF v3 >= ISO_LEVEL THEN 8 ELSE 0)

\* The match with the arms of cases 6 and 12 exchanged.
LineTableSwapped(ci) ==
    CASE ci \in {1, 14} -> << <<"a", "d">> >>
      [] ci \in {2, 13} -> << <<"d", "c">> >>
      [] ci \in {3, 6}  -> << <<"a", "c">> >>
      [] ci \in {4, 11} -> << <<"c", "b">> >>
      [] ci = 5         -> << <<"a", "d">>, <<"b", "c">> >>
      [] ci \in {12, 9} -> << <<"d", "b">> >>
      [] ci \in {7, 8}  -> << <<"a", "b">> >>
      [] ci = 10        -> << <<"a", "b">>, <<"c", "d">> >>
      [] OTHER          -> << >>

\* The `match case_index` of lines 167-189: the pairs of edge points handed to
\* gizmos.line_2d, in emission order.
LineTable(ci) ==
    CASE ci = 1  -> << <<"a", "d">> >>
      [] ci = 2  -> << <<"d", "c">> >>
      [] ci = 3  -> << <<"a", "c">> >>
      [] ci = 4  -> << <<"c", "b">> >>
      [] ci = 5  -> << <<"a", "d">>, <<"b", "c">> >>
      [] ci = 6  -> << <<"d", "b">> >>
      [] ci = 7  -> << <<"a", "b">> >>
      [] ci = 8  -> << <<"a", "b">> >>
      [] ci = 9  -> << <<"d", "b">> >>
      [] ci = 10 -> << <<"a", "b">>, <<"c", "d">> >>
      [] ci = 11 -> << <<"c", "b">> >>
      [] ci = 12 -> << <<"a", "c">> >>
      [] ci = 13 -> << <<"d", "c">> >>
      [] ci = 14 -> << <<"a", "d">> >>
      [] OTHER   -> << >>

\* The body of the loops for the cell whose lower-left corner is grid point
\* `cell`, at world position p0, with corner densities v0..v3: the draw
\* commands it emits, in order.
CellBody(cell, p0, v0, v1, v2, v3) ==
    LET p1 == <<p0[1] + VOXEL_SIZE, p0[2]>>
        p2 == <<p0[1] + VOXEL_SIZE, p0[2] + VOXEL_SIZE>>
        p3 == <<p0[1], p0[2] + VOXEL_SIZE>>
        circle == IF v0 > 0
                  THEN << [kind |-> "circle", cell |-> cell, ends |-> <<"p0", "p0">>,
                           p |-> Pt(p0), q |-> Pt(p0), size |-> One + v0 * 2,
                           color |-> "red"] >>
                  ELSE << >>
        ci == case_index(v0, v1, v2, v3)
        a == interpolate(p0, p3, v0, v3)
        b == interpolate(p3, p2, v3, v2)
        c == interpolate(p1, p2, v1, v2)
        d == interpolate(p0, p1, v0, v1)
        pt(e) == CASE e = "a" -> a [] e = "b" -> b [] e = "c" -> c [] OTHER -> d
        tab == LineTable(ci)
    IN  IF ci = 0 \/ ci = 15
        THEN circle
        ELSE circle \o [i \in 1 .. Len(tab) |->
                          [kind |-> "line", cell |-> cell, ends |-> tab[i],
                           p |-> pt(tab[i][1]), q |-> pt(tab[i][2]), size |-> 0,
                           color |-> "green"]]

\* World position of grid point (x, y), lines 111-119.
CellOrigin(m, x, y) ==
    LET offset_x == -((m.width * VOXEL_SIZE) \div 2)
        offset_y == -((m.height * VOXEL_SIZE) \div 2)
    IN  <<x * VOXEL_SIZE + offset_x, y * VOXEL_SIZE + offset_y>>

\* The loops run over every grid point, the last row and column included.
RECURSIVE DrawLoopAllPoints(_, _)
DrawLoopAllPoints(m, k) ==
    IF m.width <= 0 \/ m.height <= 0 \/ k >= m.width * m.height
    THEN << >>
    ELSE CellBody(<<k % m.width, k \div m.width>>,
                  CellOrigin(m, k % m.width, k \div m.width),
                  get_density(m, k % m.width, k \div m.width),
                  get_density(m, (k % m.width) + 1, k \div m.width),
                  get_density(m, (k % m.width) + 1, (k \div m.width) + 1),
                  get_density(m, k % m.width, (k \div m.width) + 1))
         \o DrawLoopAllPoints(m, k + 1)

\* The loops `for y in 0..height-1 { for x in 0..width-1`, from cell k on.
RECURSIVE DrawLoop(_, _)
DrawLoop(m, k) ==
    LET cols == m.width - 1
        rows == m.height - 1
        x == k % cols
        y == k \div cols
    IN  IF cols <= 0 \/ rows <= 0 \/ k >= cols * rows
        THEN << >>
        ELSE CellBody(<<x, y>>, CellOrigin(m, x, y),
                      get_density(m, x, y), get_density(m, x + 1, y),
                      get_density(m, x + 1, y + 1), get_density(m, x, y + 1))
             \o DrawLoop(m, k + 1)

\* draw_marching_squares: the draw commands of one run over map m
draw_marching_squares(m) == DrawLoop(m, 0)

\* ------------------------------------------------------------ field API runs
Init ==
    /\ pc = "start"
    /\ map = [data |-> << >>, width |-> 0, height |-> 0]
    /\ calls = 0
    /\ last = NoCall
    /\ ret = 0
    /\ gizmos = << >>
    /\ corners = <<0, 0, 0, 0>>
    /\ interp = [p1 |-> <<0, 0>>, p2 |-> <<0, 0>>, v1 |-> 0, v2 |-> 0, res |-> Pt(<<0, 0>>)]
    /\ frame = 0
    /\ running = {}
    /\ finished = {}

\* let map = VoxelMap::new(w, h)
New(w, h) ==
    /\ pc = "start"
    /\ pc' = "ready"
    /\ map' = new(w, h)
    /\ last' = [op |-> "new", args |-> <<w, h>>]
    /\ UNCHANGED <<calls, ret, gizmos, corners, interp, frame, running, finished>>

\* map.modify_density(x, y, amount)
ModifyDensity(x, y, amount) ==
    /\ pc = "ready"
    /\ calls < MaxSteps
    /\ \E m \in {modify_density(map, x, y, amount)} :
           /\ pc' = IF m = PanicMap THEN "panicked" ELSE "ready"
           /\ map' = IF m = PanicMap THEN map ELSE m
    /\ calls' = calls + 1
    /\ last' = [op |-> "modify_density", args |-> <<x, y, amount>>]
    /\ UNCHANGED <<ret, gizmos, corners, interp, frame, running, finished>>

\* map.get_density(x, y)
GetDensity(x, y) ==
    /\ pc = "ready"
    /\ calls < MaxSteps
    /\ \E v \in {get_density(map, x, y)} :
           /\ pc' = IF v = PanicValue THEN "panicked" ELSE "ready"
           /\ ret' = v
    /\ calls' = calls + 1
    /\ last' = [op |-> "get_density", args |-> <<x, y>>]
    /\ UNCHANGED <<map, gizmos, corners, interp, frame, running, finished>>

\* one run of the system handle_input on input `in`
HandleInput(in) ==
    /\ pc = "ready"
    /\ calls < MaxSteps
    /\ \E m \in {handle_input(map, in)} :
           /\ pc' = IF m = PanicMap THEN "panicked" ELSE "ready"
           /\ map' = IF m = PanicMap THEN map ELSE m
    /\ calls' = calls + 1
    /\ last' = [op |-> "handle_input", args |-> <<in>>]
    /\ UNCHANGED <<ret, gizmos, corners, interp, frame, running, finished>>

\* one run of the system draw_marching_squares
DrawMarchingSquares ==
    /\ pc = "ready"
    /\ calls < MaxSteps
    /\ gizmos' = draw_marching_squares(map)
    /\ calls' = calls + 1
    /\ last' = [op |-> "draw_marching_squares", args |-> << >>]
    /\ UNCHANGED <<pc, map, ret, corners, interp, frame, running, finished>>

\* Coordinates tried on a map: every cell and one step past each border.
CoordsX == -1 .. map.width
CoordsY == -1 .. map.height

Next ==
    \/ \E d \in Dims : New(d[1], d[2])
    \/ \E x \in CoordsX, y \in CoordsY, amount \in Amounts : ModifyDensity(x, y, amount)
    \/ \E x \in CoordsX, y \in CoordsY : GetDensity(x, y)
    \/ \E in \in HandleInputs : HandleInput(in)
    \/ DrawMarchingSquares

Spec == Init /\ [][Next]_vars

\* ------------------------------------------------------------ one cell
\* The loop body of draw_marching_squares and interpolate as pure functions:
\* the corner densities are drawn in the initial state, the actions apply them.
CellOriginPoint == CellOrigin(new(GRID_WIDTH, GRID_HEIGHT), 0, 0)

InitCell ==
    /\ pc = "cell"
    /\ map = new(GRID_WIDTH, GRID_HEIGHT)
    /\ calls = 0
    /\ last = NoCall
    /\ ret = 0
    /\ gizmos = << >>
    /\ corners \in Densities \X Densities \X Densities \X Densities
    /\ interp = [p1 |-> <<0, 0>>, p2 |-> <<0, 0>>, v1 |-> 0, v2 |-> 0, res |-> Pt(<<0, 0>>)]
    /\ frame = 0
    /\ running = {}
    /\ finished = {}

\* one pass of the loop body, lines 117-189, on the cell at grid point (0, 0)
ProcessCell ==
    /\ pc = "cell"
    /\ last.op # "cell"
    /\ gizmos' = CellBody(<<0, 0>>, CellOriginPoint,
                          corners[1], corners[2], corners[3], corners[4])
    /\ last' = [op |-> "cell", args |-> << >>]
    /\ UNCHANGED <<pc, map, calls, ret, corners, interp, frame, running, finished>>

\* interpolate(p1, p2, v1, v2) with v1, v2 the densities of corners 0 and 1
Interpolate(p1, p2) ==
    /\ pc = "cell"
    /\ interp' = [p1 |-> p1, p2 |-> p2, v1 |-> corners[1], v2 |-> corners[2],
                  res |-> interpolate(p1, p2, corners[1], corners[2])]
    /\ last' = [op |-> "interpolate", args |-> <<p1, p2>>]
    /\ UNCHANGED <<pc, map, calls, ret, gizmos, corners, frame, running, finished>>

NextCell ==
    \/ ProcessCell
    \/ \E p1 \in Points, p2 \in Points : Interpolate(p1, p2)

SpecCell == InitCell /\ [][NextCell]_vars

\* ------------------------------------------------------------ main: the Update schedule
\* .add_systems(Update, (handle_input, draw_marching_squares)): both systems
\* run once per frame. The tuple is not chained, so the schedule holds no
\* ordering edge between them; the executor may start either first. A system
\* starts only while no running system has conflicting access:
\* handle_input takes ResMut<VoxelMap>, draw_marching_squares Res<VoxelMap>.
Systems == {"handle_input", "draw_marching_squares"}

Conflict(s, t) == s # t /\ "handle_input" \in {s, t}

InitFrame ==
    /\ pc = "ready"
    /\ map = new(GRID_WIDTH, GRID_HEIGHT)
    /\ calls = 0
    /\ last = [op |-> "new", args |-> <<GRID_WIDTH, GRID_HEIGHT>>]
    /\ ret = 0
    /\ gizmos = << >>
    /\ corners = <<0, 0, 0, 0>>
    /\ interp = [p1 |-> <<0, 0>>, p2 |-> <<0, 0>>, v1 |-> 0, v2 |-> 0, res |-> Pt(<<0, 0>>)]
    /\ frame = 0
    /\ running = {}
    /\ finished = {}

\* the executor starts system s
StartSystem(s) ==
    /\ pc = "ready"
    /\ frame < MaxFrames
    /\ s \notin running \cup finished
    /\ \A r \in running : ~Conflict(r, s)
    /\ running' = running \cup {s}
    /\ UNCHANGED <<pc, map, calls, last, ret, gizmos, corners, interp, frame, finished>>

\* handle_input runs to its end on this frame's input
RunHandleInput(in) ==
    /\ "handle_input" \in running
    /\ \E m \in {handle_input(map, in)} :
           /\ pc' = IF m = PanicMap THEN "panicked" ELSE "ready"
           /\ map' = IF m = PanicMap THEN map ELSE m
    /\ calls' = calls + 1
    /\ last' = [op |-> "handle_input", args |-> <<in>>]
    /\ running' = running \ {"handle_input"}
    /\ finished' = finished \cup {"handle_input"}
    /\ UNCHANGED <<ret, gizmos, corners, interp, frame>>

\* draw_marching_squares runs to its end
RunDrawMarchingSquares ==
    /\ "draw_marching_squares" \in running
    /\ gizmos' = draw_marching_squares(map)
    /\ calls' = calls + 1
    /\ last' = [op |-> "draw_marching_squares", args |-> << >>]
    /\ running' = running \ {"draw_marching_squares"}
    /\ finished' = finished \cup {"draw_marching_squares"}
    /\ UNCHANGED <<pc, map, ret, corners, interp, frame>>

\* both systems have run: the next frame begins (gizmos are immediate-mode and
\* cleared with the frame)
EndFrame ==
    /\ pc = "ready"
    /\ finished = Systems
    /\ frame' = frame + 1
    /\ finished' = {}
    /\ gizmos' = << >>
    /\ UNCHANGED <<pc, map, calls, last, ret, corners, interp, running>>

NextFrame ==
    \/ \E s \in Systems : StartSystem(s)
    \/ \E in \in HandleInputs : RunHandleInput(in)
    \/ RunDrawMarchingSquares
    \/ EndFrame

SpecFrame == InitFrame /\ [][NextFrame]_vars

\* ============================================================ field claims
InGrid(m, x, y) == x >= 0 /\ x < m.width /\ y >= 0 /\ y < m.height

Lines(cmds) == SelectSeq(cmds, LAMBDA c : c.kind = "line")

\* The cell of a draw command has grid point (x, y) as one of its four corners.
HasCorner(cell, x, y) == x \in {cell[1], cell[1] + 1} /\ y \in {cell[2], cell[2] + 1}

\* C1: after construction and any sequence of modify_density calls (direct or
\* made by handle_input), every stored density v satisfies 0.0 <= v <= 1.0.
C1_DensityInRange ==
    pc # "start" =>
        \A i \in DOMAIN map.data : 0 <= map.data[i] /\ map.data[i] <= One

\* A dig by handle_input on a cell that a modify_density of -1.5 had already
\* clamped to 0.0: the cell stays 0.0, a neighbour went from 1.0 to 0.9.
C1_Witness ==
    /\ pc = "ready" /\ calls = 2 /\ last.op = "handle_input" /\ last.args[1].left
    /\ \E i \in DOMAIN map.data : map.data[i] = 0
    /\ \E j \in DOMAIN map.data : map.data[j] = One - BrushStep

\* C2: get_density(x, y) returns exactly 0.0 for every coordinate outside
\* [0,width) x [0,height) and the value stored at index y*width + x otherwise; it
\* does not fail and leaves the field unchanged.
C2_GetDensity ==
    [][last'.op = "get_density" =>
        /\ pc' = "ready"
        /\ map' = map
        /\ ret' = IF \/ last'.args[1] < 0 \/ last'.args[1] >= map.width
                     \/ last'.args[2] < 0 \/ last'.args[2] >= map.height
                  THEN 0
                  ELSE map.data[last'.args[2] * map.width + last'.args[1] + 1]]_vars

\* A read one column past the right border, in a row whose flat index
\* y*width + x still falls inside the data, after that cell's row-neighbour
\* was lowered: the read returns 0.0.
C2_Witness ==
    /\ pc = "ready" /\ last.op = "get_density"
    /\ map.width >= 2 /\ last.args[1] = map.width /\ last.args[2] = 0 /\ map.height >= 2
    /\ map.data[map.width + 1] = One - (One \div 4)
    /\ ret = 0

\* C3: modify_density(x, y, delta) out of range changes no cell, nor width or
\* height, and raises no error; in range it sets that cell to
\* clamp(old + delta, 0.0, 1.0) and changes nothing else.
C3_ModifyDensityEffect ==
    [][last'.op = "modify_density" =>
        /\ pc' = "ready"
        /\ map'.width = map.width /\ map'.height = map.height
        /\ DOMAIN map'.data = DOMAIN map.data
        /\ \A i \in DOMAIN map.data :
              map'.data[i] =
                  IF /\ InGrid(map, last'.args[1], last'.args[2])
                     /\ i = last'.args[2] * map.width + last'.args[1] + 1
                  THEN Clamp(map.data[i] + last'.args[3], 0, One)
                  ELSE map.data[i]]_vars

\* Two modify_density calls on a 3x2 field: one in range that clamps at 0.0,
\* then one a column past the right border whose flat index is a real cell.
C3_Witness ==
    /\ pc = "ready" /\ calls = 2 /\ last.op = "modify_density"
    /\ map.width = 3 /\ map.height = 2
    /\ last.args[1] = map.width /\ last.args[2] = 0
    /\ \E i \in DOMAIN map.data : map.data[i] = 0
    /\ map.data[map.width + 1] = One

\* C6: one handle_input run with a held button and the pointer resolved to
\* (gx, gy) sets every in-range cell (gx+dx, gy+dy) with dx*dx + dy*dy <= r*r,
\* r = 4, to clamp(old + amount, 0.0, 1.0), amount = -0.1 when the left (dig)
\* button is held and +0.1 when only the right (fill) button is, each once; all
\* other cells are unchanged, also when (gx, gy) is outside the grid.
C6_SculptDisc ==
    [][(/\ last'.op = "handle_input"
        /\ last'.args[1].window /\ last'.args[1].camera
        /\ (last'.args[1].left \/ last'.args[1].right)
        /\ last'.args[1].world # << >>) =>
        /\ pc' = "ready"
        /\ map'.width = map.width /\ map'.height = map.height
        /\ DOMAIN map'.data = DOMAIN map.data
        /\ \A x \in 0 .. map.width - 1, y \in 0 .. map.height - 1 :
              map'.data[y * map.width + x + 1] =
                  IF (x - world_to_grid(map, last'.args[1].world)[1])
                       * (x - world_to_grid(map, last'.args[1].world)[1])
                     + (y - world_to_grid(map, last'.args[1].world)[2])
                       * (y - world_to_grid(map, last'.args[1].world)[2]) <= 16
                  THEN Clamp(map.data[y * map.width + x + 1]
                             + (IF last'.args[1].left THEN -(One \div 10) ELSE One \div 10),
                             0, One)
                  ELSE map.data[y * map.width + x + 1]]_vars

\* A dig on a fresh field with the pointer at grid point (-2, -2), outside the
\* grid: cell (0, 0) is inside the disc and went to 0.9, cell (1, 1) is inside
\* the 9x9 square of offsets but outside the disc and is still 1.0.
C6_Witness ==
    /\ pc = "ready" /\ calls = 1 /\ last.op = "handle_input"
    /\ last.args[1].window /\ last.args[1].camera /\ last.args[1].left
    /\ last.args[1].world # << >>
    /\ world_to_grid(map, last.args[1].world) = <<-2, -2>>
    /\ map.width >= 2 /\ map.height >= 2
    /\ map.data[1] = One - BrushStep
    /\ map.data[map.width + 2] = One

\* C7: with width >= 2 and height >= 2, extracting a fresh field finds case
\* index 15 in every scanned cell and emits no segment; extracting after one
\* in-range modify_density(x, y, delta) with delta <= -1.0 finds that cell at
\* 0.0, emits at least one segment, and every emitted segment belongs to a
\* scanned cell that has (x, y) as a corner.
C7_FreshThenCarved ==
    [][(last'.op = "draw_marching_squares" /\ map.width >= 2 /\ map.height >= 2) =>
        /\ calls = 0 =>
              /\ \A x \in 0 .. map.width - 2, y \in 0 .. map.height - 2 :
                    case_index(get_density(map, x, y), get_density(map, x + 1, y),
                               get_density(map, x + 1, y + 1), get_density(map, x, y + 1)) = 15
              /\ Lines(gizmos') = << >>
        /\ (/\ calls = 1 /\ last.op = "modify_density"
            /\ InGrid(map, last.args[1], last.args[2])
            /\ last.args[3] <= -One) =>
              /\ get_density(map, last.args[1], last.args[2]) = 0
              /\ Lines(gizmos') # << >>
              /\ \A i \in DOMAIN Lines(gizmos') :
                    /\ Lines(gizmos')[i].cell[1] \in 0 .. map.width - 2
                    /\ Lines(gizmos')[i].cell[2] \in 0 .. map.height - 2
                    /\ HasCorner(Lines(gizmos')[i].cell, last.args[1], last.args[2])]_vars

\* Extraction of a 3x2 field in which one modify_density of -1.5 carved cell
\* (0, 0): segments were emitted, and the scanned cell (1, 0), which does not
\* have (0, 0) as a corner, emitted none.
C7_Witness ==
    /\ pc = "ready" /\ calls = 2 /\ last.op = "draw_marching_squares"
    /\ map.width = 3 /\ map.height = 2
    /\ map.data = <<0, One, One, One, One, One>>
    /\ Lines(gizmos) # << >>
    /\ \A i \in DOMAIN Lines(gizmos) : Lines(gizmos)[i].cell = <<0, 0>>

\* C8: construction with width = 0 or height = 0 fails with an
\* invalid-argument error and yields no field; with width >= 1 and
\* height >= 1 it yields width*height cells, all 1.0.
C8_ZeroSizeRejected ==
    last.op = "new" =>
        IF last.args[1] = 0 \/ last.args[2] = 0
        THEN pc = "failed"
        ELSE /\ pc = "ready"
             /\ Len(map.data) = last.args[1] * last.args[2]
             /\ \A i \in DOMAIN map.data : map.data[i] = One

\* ============================================================ cell claims
\* World position of corner i (0 bottom-left, 1 bottom-right, 2 top-right,
\* 3 top-left) of the cell ProcessCell works on.
CornerPoint(i) ==
    CASE i = 0 -> CellOriginPoint
      [] i = 1 -> <<CellOriginPoint[1] + 8, CellOriginPoint[2]>>
      [] i = 2 -> <<CellOriginPoint[1] + 8, CellOriginPoint[2] + 8>>
      [] OTHER -> <<CellOriginPoint[1], CellOriginPoint[2] + 8>>

\* The two corners of the edge each point lies on: a on corner0-corner3, b on
\* corner3-corner2, c on corner1-corner2, d on corner0-corner1.
EdgeOf(e) ==
    CASE e = "a" -> <<0, 3>> [] e = "b" -> <<3, 2>> [] e = "c" -> <<1, 2>> [] OTHER -> <<0, 1>>

Min(a, b) == IF a < b THEN a ELSE b
Max(a, b) == IF a < b THEN b ELSE a

\* Point pt = (x/den, y/den) lies on the straight line through P and Q.
OnLine(pt, P, Q) ==
    (pt.x - P[1] * pt.den) * (Q[2] - P[2]) = (pt.y - P[2] * pt.den) * (Q[1] - P[1])

\* Point pt lies on the segment from P to Q (P + t*(Q - P) with 0 <= t <= 1).
OnSegment(pt, P, Q) ==
    /\ pt.den > 0
    /\ OnLine(pt, P, Q)
    /\ Min(P[1], Q[1]) * pt.den <= pt.x /\ pt.x <= Max(P[1], Q[1]) * pt.den
    /\ Min(P[2], Q[2]) * pt.den <= pt.y /\ pt.y <= Max(P[2], Q[2]) * pt.den

RECURSIVE Gcd(_, _)
Gcd(a, b) == IF b = 0 THEN a ELSE Gcd(b, a % b)

\* The fraction n/d (d # 0) in lowest terms with a positive denominator.
Reduced(n, d) ==
    <<(IF d < 0 THEN -n ELSE n) \div Gcd(Abs(n), Abs(d)), Abs(d) \div Gcd(Abs(n), Abs(d))>>

\* a/b = c/d as rational numbers.
SameFraction(a, b, c, d) == Reduced(a, b) = Reduced(c, d)

\* Exactly one of the two densities is at or above the threshold 0.5.
Straddles(v1, v2) == (v1 >= One \div 2) # (v2 >= One \div 2)

\* The index whose bit i is set exactly when corner i is at or above 0.5.
ExpectedIndex ==
    CHOOSE c \in 0 .. 15 :
        \A i \in 0 .. 3 : (((c \div (2 ^ i)) % 2) = 1) <=> (corners[i + 1] >= One \div 2)

\* The segment table of the specification, as sets of unordered pairs.
ExpectedSegments(c) ==
    CASE c \in {1, 14} -> {{"a", "d"}}
      [] c \in {2, 13} -> {{"d", "c"}}
      [] c \in {3, 12} -> {{"a", "c"}}
      [] c \in {4, 11} -> {{"c", "b"}}
      [] c = 5         -> {{"a", "d"}, {"b", "c"}}
      [] c \in {6, 9}  -> {{"d", "b"}}
      [] c \in {7, 8}  -> {{"a", "b"}}
      [] c = 10        -> {{"a", "b"}, {"c", "d"}}
      [] OTHER         -> {}

C5_AlwaysOnSegment ==
    last.op = "interpolate" =>
        IF Abs(interp.v1 - interp.v2) < One \div 10000
        THEN interp.res = Pt(interp.p1)
        ELSE /\ interp.res.den > 0
             /\ SameFraction(interp.res.x, interp.res.den,
                             interp.p1[1] * (interp.v2 - interp.v1)
                                 + (interp.p2[1] - interp.p1[1]) * ((One \div 2) - interp.v1),
                             interp.v2 - interp.v1)
             /\ SameFraction(interp.res.y, interp.res.den,
                             interp.p1[2] * (interp.v2 - interp.v1)
                                 + (interp.p2[2] - interp.p1[2]) * ((One \div 2) - interp.v1),
                             interp.v2 - interp.v1)
             /\ OnSegment(interp.res, interp.p1, interp.p2)

\* C5 amended: interpolate returns p1 when |v1 - v2| < 1e-4 and otherwise
\* p1 + t*(p2 - p1), t = (0.5 - v1)/(v2 - v1); that point lies on the segment
\* p1-p2 when exactly one of v1, v2 is at or above 0.5.
C5_OnSegmentWhenCrossing ==
    last.op = "interpolate" =>
        IF Abs(interp.v1 - interp.v2) < One \div 10000
        THEN interp.res = Pt(interp.p1)
        ELSE /\ interp.res.den > 0
             /\ SameFraction(interp.res.x, interp.res.den,
                             interp.p1[1] * (interp.v2 - interp.v1)
                                 + (interp.p2[1] - interp.p1[1]) * ((One \div 2) - interp.v1),
                             interp.v2 - interp.v1)
             /\ SameFraction(interp.res.y, interp.res.den,
                             interp.p1[2] * (interp.v2 - interp.v1)
                                 + (interp.p2[2] - interp.p1[2]) * ((One \div 2) - interp.v1),
                             interp.v2 - interp.v1)
             /\ Straddles(interp.v1, interp.v2) =>
                    OnSegment(interp.res, interp.p1, interp.p2)

\* interpolate on a sloped edge whose densities cross the threshold by exactly
\* 1e-4: the midpoint of the edge.
C5_Witness ==
    /\ last.op = "interpolate"
    /\ interp.p1 = <<8, 0>> /\ interp.p2 = <<-4, 12>>
    /\ interp.v1 = (One \div 2) + 1 /\ interp.v2 = (One \div 2) - 1
    /\ interp.res.x = 2 * interp.res.den /\ interp.res.y = 6 * interp.res.den

\* C10: for corner densities in [0.0, 1.0] with case index 1..14, each end of
\* each emitted segment was interpolated on an edge whose two corner densities
\* straddle the threshold, and lies on that edge of the cell.
C10_EndsOnCrossingEdges ==
    (last.op = "cell" /\ ExpectedIndex \in 1 .. 14) =>
        \A i \in DOMAIN Lines(gizmos) : \A k \in 1 .. 2 :
            /\ Straddles(corners[EdgeOf(Lines(gizmos)[i].ends[k])[1] + 1],
                         corners[EdgeOf(Lines(gizmos)[i].ends[k])[2] + 1])
            /\ OnSegment(IF k = 1 THEN Lines(gizmos)[i].p ELSE Lines(gizmos)[i].q,
                         CornerPoint(EdgeOf(Lines(gizmos)[i].ends[k])[1]),
                         CornerPoint(EdgeOf(Lines(gizmos)[i].ends[k])[2]))

\* A cell with a segment, one of whose unused edges does not cross the
\* threshold and interpolates to a point off that edge.
C10_Witness ==
    /\ last.op = "cell"
    /\ Len(Lines(gizmos)) = 1
    /\ \E e \in {"a", "b", "c", "d"} :
          /\ e \notin {Lines(gizmos)[1].ends[1], Lines(gizmos)[1].ends[2]}
          /\ ~Straddles(corners[EdgeOf(e)[1] + 1], corners[EdgeOf(e)[2] + 1])
          /\ ~OnSegment(interpolate(CornerPoint(EdgeOf(e)[1]), CornerPoint(EdgeOf(e)[2]),
                                    corners[EdgeOf(e)[1] + 1], corners[EdgeOf(e)[2] + 1]),
                        CornerPoint(EdgeOf(e)[1]), CornerPoint(EdgeOf(e)[2]))

\* ============================================================ schedule claim
\* C9: in every frame handle_input has run to completion before
\* draw_marching_squares starts, and the two never run at the same time.
C9_InputBeforeExtraction ==
    /\ Cardinality(running) <= 1
    /\ ("draw_marching_squares" \in running \cup finished) => ("handle_input" \in finished)

====
